---- MODULE Spec2Model ----
\* VimBrowse: the privilege bootstrap, the overlay window (UI thread, winit
\* event loop), the hotkey thread with its toggle action, the synthetic key
\* injector, the per-frame border geometry and the HSV conversion, modelled
\* from src/src/main.rs, src/src/hotkey.rs, src/src/monitor.rs and
\* src/src/uiaccess.rs.
EXTENDS Integers, Sequences, FiniteSets, TLC

\* ------------------------------------------------------------------ bounds

\* Toggle-hotkey presses in one run.
MaxToggles == 4

\* Longest key combination handed to send_keys.
MaxKeys == 4

\* Largest surface width and height, and largest border, of a drawn frame.
MaxDim == 7

MaxBorder == 3

\* Hues run over -MaxHue..MaxHue degrees.
MaxHue == 400

\* ------------------------------------------------------------- basic types

\* Option<T>: None is the empty sequence, Some(x) the one-element sequence.
None == <<>>

Some(x) == <<x>>

\* The modulus of the wrapping u32 arithmetic of a release build. Rust's is
\* 2^32; the checker's integers are 32-bit signed, so the model wraps at 2^30:
\* a wrapped difference is still far above every perimeter of the model.
U32 == 2 ^ 30

\* Sizes of the primary display the environment may report (width, height).
\* With the border of 4 pixels, 4x4 is the degenerate surface (perimeter 0)
\* and 9x8 a regular one.
DisplaySizes == {<<4, 4>>, <<9, 8>>}

\* window.scale_factor() in quarters: 4 quarters = 1.0.
ScaleQuarters == 4

VARIABLES
    show_state,   \* the AtomicBool shared by both threads (VisibilityFlag)
    window,       \* App.window: None or Some([id, width, height])
    live,         \* ids of the OS windows that exist (created, not yet dropped)
    next_id,      \* the WindowId the next created window gets
    monitor,      \* what get_primary_monitor_logical_size returns now:
                  \* Some(<<width, height>>), or None when the query fails
    hotkey,       \* hotkey thread: [pc, tmp]; tmp is the value the toggle loaded
    wakes,        \* user events sent through the proxy and not yet delivered
    redraws,      \* window ids with a requested, undelivered RedrawRequested
    ui,           \* UI thread: [pc, ev]; ev is the event being handled
    proc,         \* [state, code]: the process and its exit status
    toggles,      \* history: invocations of the toggle action so far
    probe,        \* history: the overlay as it was before a pair of toggles
    frame,        \* history: what the last handled redraw did
    created,      \* history: the size each window was created with, by id
    input,        \* argument of the pure function under study
    output,       \* its result
    boot,         \* main before the core starts: [pc, ui_access, child]
    seen          \* history: the flag value the previous create_window loaded

appVars == <<show_state, window, live, next_id, monitor, hotkey, wakes,
             redraws, ui, proc, toggles, probe, frame, created, boot, seen>>

vars == <<show_state, window, live, next_id, monitor, hotkey, wakes,
          redraws, ui, proc, toggles, probe, frame, created, input,
          output, boot, seen>>

Running == proc.state = "running"

\* ------------------------------------------------------------ main, line 249

\* main: the process starts at line 250 with the privilege bootstrap; its token
\* has UIAccess or not. show_state starts true, App.window None; the hotkey
\* thread is spawned before run_app, so it runs concurrently with the event
\* loop.
InitApp ==
    /\ show_state = TRUE
    /\ window = None
    /\ live = {}
    /\ next_id = 1
    /\ monitor \in {Some(s) : s \in DisplaySizes}
    /\ hotkey = [pc |-> "unspawned", tmp |-> FALSE]
    /\ wakes = 0
    /\ redraws = {}
    /\ ui = [pc |-> "boot", ev |-> <<"none", 0>>]
    /\ proc = [state |-> "running", code |-> 0]
    /\ toggles = 0
    /\ probe = None
    /\ frame = "none"
    /\ created = <<>>
    /\ boot \in [pc : {"check"}, ui_access : BOOLEAN, child : {FALSE}]
    /\ seen = None

Init ==
    /\ InitApp
    /\ input = None
    /\ output = None

\* ------------------------------- prepare_uiaccess_token, uiaccess.rs line 202

\* check_for_ui_access()?: opening the process token or querying TokenUIAccess
\* may fail (Err); otherwise the flag of the token decides between returning
\* Ok(()) at once and building a token for the relaunch.
CheckForUiAccess ==
    /\ Running
    /\ boot.pc = "check"
    /\ \E failed \in BOOLEAN :
          boot' = [boot EXCEPT !.pc = IF failed THEN "err"
                                     ELSE IF boot.ui_access THEN "ok"
                                     ELSE "create_token"]
    /\ UNCHANGED <<show_state, window, live, next_id, monitor, hotkey, wakes,
                   redraws, ui, proc, toggles, probe, frame, created, input,
                   output, seen>>

\* create_uiaccess_token(&mut token_handle)?: every call in it (the winlogon
\* token, SetThreadToken, DuplicateTokenEx, SetTokenInformation) may fail.
CreateUiaccessToken ==
    /\ Running
    /\ boot.pc = "create_token"
    /\ \E failed \in BOOLEAN :
          boot' = [boot EXCEPT !.pc = IF failed THEN "err" ELSE "create_process"]
    /\ UNCHANGED <<show_state, window, live, next_id, monitor, hotkey, wakes,
                   redraws, ui, proc, toggles, probe, frame, created, input,
                   output, seen>>

\* CreateProcessAsUserW(token, command line)?: the relaunched process exists
\* once the call has succeeded.
CreateProcessAsUser ==
    /\ Running
    /\ boot.pc = "create_process"
    /\ \E failed \in BOOLEAN :
          boot' = IF failed THEN [boot EXCEPT !.pc = "err"]
                  ELSE [boot EXCEPT !.pc = "close_handles", !.child = TRUE]
    /\ UNCHANGED <<show_state, window, live, next_id, monitor, hotkey, wakes,
                   redraws, ui, proc, toggles, probe, frame, created, input,
                   output, seen>>

\* The exit status of ExitProcess(0).
RelaunchCode == 0

\* CloseHandle(hProcess)?; CloseHandle(hThread)?; ExitProcess(0): the original
\* process ends with status 0 unless closing a handle fails.
CloseHandlesAndExit ==
    /\ Running
    /\ boot.pc = "close_handles"
    /\ \E failed \in BOOLEAN :
          IF failed
          THEN /\ boot' = [boot EXCEPT !.pc = "err"]
               /\ UNCHANGED proc
          ELSE /\ boot' = [boot EXCEPT !.pc = "relaunched"]
               /\ proc' = [state |-> "exited", code |-> RelaunchCode]
    /\ UNCHANGED <<show_state, window, live, next_id, monitor, hotkey, wakes,
                   redraws, ui, toggles, probe, frame, created, input, output,
                   seen>>

\* main, lines 250 to 333: `let _ = prepare_uiaccess_token()...` drops the
\* Result, Ok or Err alike; the hotkey thread is spawned and run_app entered.
MainStartsCore ==
    /\ Running
    /\ boot.pc \in {"ok", "err"}
    /\ boot' = [boot EXCEPT !.pc = "core"]
    /\ hotkey' = [hotkey EXCEPT !.pc = "registering"]
    /\ ui' = [ui EXCEPT !.pc = "init"]
    /\ UNCHANGED <<show_state, window, live, next_id, monitor, wakes, redraws,
                   proc, toggles, probe, frame, created, input, output, seen>>

\* ------------------------------------------------------------ hotkey thread

\* The thread registers its ten bindings and enters hkm.event_loop().
HotkeyThreadStart ==
    /\ Running
    /\ hotkey.pc = "registering"
    /\ hotkey' = [hotkey EXCEPT !.pc = "waiting"]
    /\ UNCHANGED <<show_state, window, live, next_id, monitor, wakes, redraws,
                   ui, proc, toggles, probe, frame, created, input, output, boot, seen>>

\* A register call returns Err (the pair is taken, or the OS refuses the hook)
\* and its unwrap panics. The panic unwinds the spawned thread only: its
\* JoinHandle was dropped at line 326, so main and the event loop run on.
RegisterFails ==
    /\ Running
    /\ hotkey.pc = "registering"
    /\ hotkey' = [hotkey EXCEPT !.pc = "panicked"]
    /\ UNCHANGED <<show_state, window, live, next_id, monitor, wakes, redraws,
                   ui, proc, toggles, probe, frame, created, input, output,
                   boot, seen>>

\* The value the toggle stores, from the value it loaded.
FlipKeeps(v) == v

Flip(v) == ~v

\* The history record of the overlay before a pair of toggles: taken when a
\* toggle starts, n counts the toggles completed since, clean says that the UI
\* thread has handled no wake before the second of them completed.
Snapshot ==
    [present |-> window # None,
     flag    |-> show_state,
     n       |-> 0,
     clean   |-> TRUE]

\* Toggle, first step: show_state.load(Relaxed).
ToggleLoad ==
    /\ Running
    /\ hotkey.pc = "waiting"
    /\ toggles < MaxToggles
    /\ hotkey' = [pc |-> "loaded", tmp |-> show_state]
    /\ toggles' = toggles + 1
    /\ \/ /\ probe = None
          /\ probe' \in {None, Some(Snapshot)}
       \/ /\ probe # None
          /\ probe' = IF probe[1].n < 2 THEN probe ELSE Some([probe[1] EXCEPT !.n = 3])
    /\ UNCHANGED <<show_state, window, live, next_id, monitor, wakes, redraws,
                   ui, proc, frame, created, input, output, boot, seen>>

\* Toggle, second step: show_state.store(!loaded, Relaxed).
ToggleStore ==
    /\ Running
    /\ hotkey.pc = "loaded"
    /\ show_state' = Flip(hotkey.tmp)
    /\ hotkey' = [hotkey EXCEPT !.pc = "stored"]
    /\ UNCHANGED <<window, live, next_id, monitor, wakes, redraws, ui, proc,
                   toggles, probe, frame, created, input, output, boot, seen>>

\* Toggle, third step: event_loop_proxy.send_event(()), then back to waiting.
ToggleSend ==
    /\ Running
    /\ hotkey.pc = "stored"
    /\ wakes' = wakes + 1
    /\ hotkey' = [hotkey EXCEPT !.pc = "waiting"]
    /\ probe' = IF probe # None /\ probe[1].n < 2
                THEN Some([probe[1] EXCEPT !.n = @ + 1])
                ELSE probe
    /\ UNCHANGED <<show_state, window, live, next_id, monitor, redraws, ui,
                   proc, toggles, frame, created, input, output, boot, seen>>

\* -------------------------------------------------------------- environment

\* The primary display changes its size, or can no longer be resolved.
MonitorChange ==
    /\ Running
    /\ \E m \in ({None} \cup {Some(s) : s \in DisplaySizes}) \ {monitor} :
           monitor' = m
    /\ UNCHANGED <<show_state, window, live, next_id, hotkey, wakes, redraws,
                   ui, proc, toggles, probe, frame, created, input, output, boot, seen>>

\* ------------------------------------------- the redraw's geometry, line 113

\* f32::round of n/d for n >= 0, d > 0 (half away from zero).
RoundDiv(n, d) == (2 * n + d) \div (2 * d)

\* border_width = (4.0 * scale_factor).round() as u32, the scale factor given
\* in quarters.
BorderWidth(quarters) == RoundDiv(4 * quarters, 4)

\* u32::saturating_sub.
SatSub(a, b) == IF a >= b THEN a - b ELSE 0

\* The u32 subtraction a - b as a release build computes it (wrapping); a debug
\* build panics where a < b.
WrapSub(a, b) == (a - b + U32) % U32

\* perimeter = 2.0 * (width + height - 2.0 * border_width), computed in f32
\* (signed, exact for the sizes used here).
Perimeter(w, h, b) == 2 * (w + h - 2 * b)

\* The test that skips a degenerate frame: perimeter == 0.0.
PerimeterSkips(w, h, b) == Perimeter(w, h, b) = 0

\* The number of iterations of `for i in lo..hi`.
Count(lo, hi) == IF hi > lo THEN hi - lo ELSE 0

\* The k-th iteration of `for o in olo.. { for i in ilo..ihi {..} }`, as the
\* pair <<o, i>>.
NestAt(olo, ilo, ihi, k) ==
    <<olo + ((k - 1) \div Count(ilo, ihi)), ilo + ((k - 1) % Count(ilo, ihi))>>

\* One write of a band loop: the buffer index, the un-normalised perimeter
\* position p whose colour is stored there, the pixel, and whether computing p
\* overflowed a u32 subtraction.
Write(x, y, w, p, ovf, band) ==
    [idx |-> y * w + x, p |-> p, x |-> x, y |-> y, ovf |-> ovf, band |-> band]

\* The un-normalised perimeter position p of a pixel, band by band.
\* Top band: p = x.
TopPos(x) == x

\* Right band: p = width + (y - border_width).
RightPos(w, b, y) == w + (y - b)

\* Bottom band: p = width + (height - 2 * border_width) + reversed_x, with
\* reversed_x = width - 1 - x and the subtraction height - 2b in u32.
BottomPosNotReversed(w, h, b, x) == w + WrapSub(h, 2 * b) + x

BottomPos(w, h, b, x) == w + WrapSub(h, 2 * b) + (w - 1 - x)

\* reversed_y of the left band: (height - 2 * border_width - 1) - (y - b).
ReversedYNotReversed(y, h, b) == y - b

ReversedY(y, h, b) == WrapSub(WrapSub(h, 2 * b + 1), y - b)

\* Left band: p = (2 * width + height - 2 * border_width) + reversed_y.
LeftPosFromBottomRow(w, h, b, y) ==
    WrapSub(2 * w + h, 2 * b) + WrapSub(WrapSub(h, b + 1), y - b)

LeftPos(w, h, b, y) == WrapSub(2 * w + h, 2 * b) + ReversedY(y, h, b)

\* Top band: for y in 0..b, for x in 0..w. Its k-th write.
TopCount(w, h, b) == Count(0, b) * Count(0, w)

TopWrite(w, h, b, k) ==
    Write(NestAt(0, 0, w, k)[2], NestAt(0, 0, w, k)[1], w,
          TopPos(NestAt(0, 0, w, k)[2]), FALSE, "top")

\* Right band: for x in w-b..w, for y in b..h-b (both bounds saturating).
RightWriteShifted(w, h, b, k) ==
    Write(NestAt(SatSub(w, b + 1), b, SatSub(h, b), k)[1],
          NestAt(SatSub(w, b + 1), b, SatSub(h, b), k)[2], w,
          RightPos(w, b, NestAt(SatSub(w, b + 1), b, SatSub(h, b), k)[2]),
          FALSE, "right")

RightCount(w, h, b) == Count(SatSub(w, b), w) * Count(b, SatSub(h, b))

RightWrite(w, h, b, k) ==
    Write(NestAt(SatSub(w, b), b, SatSub(h, b), k)[1],
          NestAt(SatSub(w, b), b, SatSub(h, b), k)[2], w,
          RightPos(w, b, NestAt(SatSub(w, b), b, SatSub(h, b), k)[2]),
          FALSE, "right")

\* Bottom band: for y in h-b..h (saturating), for x in 0..w; height - 2b
\* overflows when h < 2b.
BottomCountOneMore(w, h, b) == Count(SatSub(h, b), h + 1) * Count(0, w)

BottomCount(w, h, b) == Count(SatSub(h, b), h) * Count(0, w)

BottomWrite(w, h, b, k) ==
    Write(NestAt(SatSub(h, b), 0, w, k)[2],
          NestAt(SatSub(h, b), 0, w, k)[1], w,
          BottomPos(w, h, b, NestAt(SatSub(h, b), 0, w, k)[2]),
          h < 2 * b, "bottom")

\* Left band: for x in 0..b, for y in b..h-b (saturating).
LeftCount(w, h, b) == Count(0, b) * Count(b, SatSub(h, b))

LeftWrite(w, h, b, k) ==
    Write(NestAt(0, b, SatSub(h, b), k)[1],
          NestAt(0, b, SatSub(h, b), k)[2], w,
          LeftPos(w, h, b, NestAt(0, b, SatSub(h, b), k)[2]),
          (2 * w + h < 2 * b) \/ (h < 2 * b + 1)
              \/ (h - (2 * b + 1) < NestAt(0, b, SatSub(h, b), k)[2] - b),
          "left")

\* The k-th write of a frame in program order: the top, the right, the bottom,
\* then the left band.
WriteCount(w, h, b) ==
    TopCount(w, h, b) + RightCount(w, h, b) + BottomCount(w, h, b)
        + LeftCount(w, h, b)

WriteAt(w, h, b, k) ==
    IF k <= TopCount(w, h, b) THEN TopWrite(w, h, b, k)
    ELSE IF k <= TopCount(w, h, b) + RightCount(w, h, b)
    THEN RightWrite(w, h, b, k - TopCount(w, h, b))
    ELSE IF k <= TopCount(w, h, b) + RightCount(w, h, b) + BottomCount(w, h, b)
    THEN BottomWrite(w, h, b, k - TopCount(w, h, b) - RightCount(w, h, b))
    ELSE LeftWrite(w, h, b, k - TopCount(w, h, b) - RightCount(w, h, b)
                               - BottomCount(w, h, b))

\* buffer.len() after surface.resize(width, height).
BufferLen(w, h) == w * h

\* A write panics when its index is outside the buffer, or, in a debug build,
\* when its u32 subtraction overflowed.
Panics(wr, len, debug) == wr.idx >= len \/ (debug /\ wr.ovf)

\* The first write of a frame that panics, 0 when none does.
FirstPanic(w, h, b, debug) ==
    IF \A k \in 1..WriteCount(w, h, b) :
          ~Panics(WriteAt(w, h, b, k), BufferLen(w, h), debug)
    THEN 0
    ELSE CHOOSE k \in 1..WriteCount(w, h, b) :
            /\ Panics(WriteAt(w, h, b, k), BufferLen(w, h), debug)
            /\ \A j \in 1..(k - 1) :
                  ~Panics(WriteAt(w, h, b, j), BufferLen(w, h), debug)

\* The two early returns: buffer.len() != (width * height) as usize, or
\* perimeter == 0.0.
EarlyReturn(w, h, b) ==
    BufferLen(w, h) # (w * h) % U32 \/ PerimeterSkips(w, h, b)

\* How the RedrawRequested arm ends from line 138 on, for a surface of w x h
\* and border b in a debug or release build: skipped (an early return, nothing
\* presented, no redraw requested), presented (buffer.present() and
\* window.request_redraw()), or panicked.
FrameStatus(w, h, b, debug) ==
    IF EarlyReturn(w, h, b) THEN "skipped"
    ELSE IF FirstPanic(w, h, b, debug) = 0 THEN "presented"
    ELSE "panicked"

\* The writes the arm carries out, in order: all of them, or those before the
\* first one that panics.
FrameWrites(w, h, b, debug) ==
    IF EarlyReturn(w, h, b) THEN <<>>
    ELSE [k \in 1..(IF FirstPanic(w, h, b, debug) = 0
                    THEN WriteCount(w, h, b)
                    ELSE FirstPanic(w, h, b, debug) - 1) |->
             WriteAt(w, h, b, k)]

\* The buffer after the arm: at each index the position p of the last write
\* that reached it, None where no write did.
FrameBuffer(w, h, b, debug) ==
    LET done == FrameWrites(w, h, b, debug)
        last(i) == {k \in DOMAIN done :
                       /\ done[k].idx = i
                       /\ \A j \in DOMAIN done : done[j].idx = i => j <= k}
    IN  [i \in 0..(BufferLen(w, h) - 1) |->
            IF last(i) = {} THEN None
            ELSE Some(done[CHOOSE k \in last(i) : TRUE].p)]

Frame(w, h, b, debug) ==
    [status |-> FrameStatus(w, h, b, debug),
     writes |-> FrameWrites(w, h, b, debug),
     buf    |-> FrameBuffer(w, h, b, debug)]

\* How a frame ends on each surface the display sizes give, at the border of the
\* window's scale factor, per build (FrameStatus, tabulated once).
FrameOutcomes ==
    [s \in DisplaySizes |->
        [debug \in BOOLEAN |->
            FrameStatus(s[1], s[2], BorderWidth(ScaleQuarters), debug)]]

\* ------------------------------------------------ App::create_window, line 40

\* let show_state = self.show_state.load(Relaxed).
ShowWhenAbsent == window = None

LoadShowState == show_state

\* The size the new window is given: the monitor size queried in this call.
SizeHardCoded == <<9, 8>>

SizeForNewWindow == monitor[1]

\* The OS windows left once the held window is dropped (self.window = None
\* drops the only Rc<Window>: the context and the surface clones are gone at
\* the end of the block that made them).
DroppedLeak(ids, w) == ids

Dropped(ids, w) == ids \ {w.id}

\* The exit status of a process whose main thread panicked.
PanicCode == 101

\* create_window as run by resumed and user_event. The unwrap of the monitor
\* query comes first and panics the main thread when the query fails, whatever
\* show_state is; the new window requests its first redraw.
CreateWindow ==
    /\ seen' = Some(LoadShowState)
    /\ IF monitor = None
       THEN /\ proc' = [state |-> "panicked", code |-> PanicCode]
            /\ UNCHANGED <<window, live, next_id, redraws, frame, created>>
       ELSE /\ UNCHANGED proc
            /\ IF LoadShowState
               THEN IF window = None
                    THEN /\ window' = Some([id |-> next_id,
                                            width |-> SizeForNewWindow[1],
                                            height |-> SizeForNewWindow[2]])
                         /\ live' = live \cup {next_id}
                         /\ next_id' = next_id + 1
                         /\ redraws' = redraws \cup {next_id}
                         /\ frame' = "none"
                         /\ created' = Append(created, SizeForNewWindow)
                    ELSE UNCHANGED <<window, live, next_id, redraws, frame,
                                     created>>
               ELSE /\ window' = None
                    /\ live' = IF window = None THEN live
                               ELSE Dropped(live, window[1])
                    /\ UNCHANGED <<next_id, redraws, frame, created>>

\* ------------------------------------------- the event loop, run_app line 333

Idle == [pc |-> "idle", ev |-> <<"none", 0>>]

Handling(kind, id) == [pc |-> "handling", ev |-> <<kind, id>>]

\* run_app delivers resumed first, once.
DispatchResumed ==
    /\ Running
    /\ ui.pc = "init"
    /\ ui' = Handling("Resumed", 0)
    /\ UNCHANGED <<show_state, window, live, next_id, monitor, hotkey, wakes,
                   redraws, proc, toggles, probe, frame, created, input,
                   output, boot, seen>>

\* run_app delivers a user event; several pending wakes may arrive as one.
DispatchUserEvent ==
    /\ Running
    /\ ui.pc = "idle"
    /\ \E k \in 1..wakes : wakes' = wakes - k
    /\ ui' = Handling("UserEvent", 0)
    /\ UNCHANGED <<show_state, window, live, next_id, monitor, hotkey,
                   redraws, proc, toggles, probe, frame, created, input,
                   output, boot, seen>>

\* run_app delivers a requested redraw of window id.
DispatchRedraw ==
    /\ Running
    /\ ui.pc = "idle"
    /\ \E id \in redraws :
          /\ redraws' = redraws \ {id}
          /\ ui' = Handling("RedrawRequested", id)
    /\ UNCHANGED <<show_state, window, live, next_id, monitor, hotkey, wakes,
                   proc, toggles, probe, frame, created, input, output, boot, seen>>

\* The OS asks to close a window, or sends any other window event; the window
\* may already have been dropped when the event is delivered.
DispatchOsEvent ==
    /\ Running
    /\ ui.pc = "idle"
    /\ \E id \in 1..(next_id - 1), kind \in {"CloseRequested", "Other"} :
          ui' = Handling(kind, id)
    /\ UNCHANGED <<show_state, window, live, next_id, monitor, hotkey, wakes,
                   redraws, proc, toggles, probe, frame, created, input,
                   output, boot, seen>>

\* App::resumed.
HandleResumed ==
    /\ Running
    /\ ui = Handling("Resumed", 0)
    /\ CreateWindow
    /\ ui' = Idle
    /\ UNCHANGED <<show_state, monitor, hotkey, wakes, toggles, probe, input,
                   output, boot>>

\* App::user_event.
HandleUserEvent ==
    /\ Running
    /\ ui = Handling("UserEvent", 0)
    /\ CreateWindow
    /\ ui' = Idle
    /\ probe' = IF probe # None /\ probe[1].n < 2
                THEN Some([probe[1] EXCEPT !.clean = FALSE])
                ELSE probe
    /\ UNCHANGED <<show_state, monitor, hotkey, wakes, toggles, input, output,
                   boot>>

\* What CloseRequested does to the event loop: event_loop.exit().
CloseHides == "idle"

CloseExits == "exit"

\* The id filter of window_event: self.window.as_ref().filter(|w| w.id() == id)
\* is Some, that is a window is held and the event is for it.
HeldWindowAny(id) == window # None

HeldWindowIs(id) == window # None /\ window[1].id = id

\* App::window_event: events of any window but the held one are dropped;
\* CloseRequested exits the loop; RedrawRequested draws a frame and, unless it
\* returned early, presents it and requests the next redraw.
HandleWindowEvent ==
    /\ Running
    /\ ui.pc = "handling"
    /\ ui.ev[1] \in {"CloseRequested", "RedrawRequested", "Other"}
    /\ IF ~HeldWindowIs(ui.ev[2])
       THEN /\ ui' = Idle
            /\ UNCHANGED <<redraws, proc, frame>>
       ELSE CASE ui.ev[1] = "CloseRequested" ->
                   /\ ui' = [Idle EXCEPT !.pc = CloseExits]
                   /\ UNCHANGED <<redraws, proc, frame>>
              [] ui.ev[1] = "RedrawRequested" ->
                   \E debug \in BOOLEAN :
                      LET st == FrameOutcomes[<<window[1].width,
                                                window[1].height>>][debug]
                      IN  /\ ui' = Idle
                          /\ frame' = st
                          /\ redraws' = IF st = "presented"
                                        THEN redraws \cup {window[1].id}
                                        ELSE redraws
                          /\ proc' = IF st = "panicked"
                                     THEN [state |-> "panicked",
                                           code |-> PanicCode]
                                     ELSE proc
              [] OTHER ->
                   /\ ui' = Idle
                   /\ UNCHANGED <<redraws, proc, frame>>
    /\ UNCHANGED <<show_state, window, live, next_id, monitor, hotkey, wakes,
                   toggles, probe, created, input, output, boot, seen>>

\* run_app returns Ok after exit(), main returns Ok(()) and the process ends
\* with status 0, whatever the hotkey thread is doing.
RunAppReturns ==
    /\ Running
    /\ ui.pc = "exit"
    /\ proc' = [state |-> "exited", code |-> 0]
    /\ UNCHANGED <<show_state, window, live, next_id, monitor, hotkey, wakes,
                   redraws, ui, toggles, probe, frame, created, input,
                   output, boot, seen>>

Next ==
    \/ CheckForUiAccess
    \/ CreateUiaccessToken
    \/ CreateProcessAsUser
    \/ CloseHandlesAndExit
    \/ MainStartsCore
    \/ HotkeyThreadStart
    \/ RegisterFails
    \/ ToggleLoad
    \/ ToggleStore
    \/ ToggleSend
    \/ MonitorChange
    \/ DispatchResumed
    \/ DispatchUserEvent
    \/ DispatchRedraw
    \/ DispatchOsEvent
    \/ HandleResumed
    \/ HandleUserEvent
    \/ HandleWindowEvent
    \/ RunAppReturns

Spec == Init /\ [][Next]_vars

\* The UI thread is a running thread: a handler that has been entered runs to
\* its end, and run_app returns once exit() has been called.
UiRuns ==
    \/ HandleResumed
    \/ HandleUserEvent
    \/ HandleWindowEvent
    \/ RunAppReturns

FairSpec == Spec /\ WF_vars(UiRuns)

\* ------------------------------------------------ send_keys, hotkey.rs line 6

\* The virtual keys of the model.
Keys == {"VK_CONTROL", "VK_TAB", "VK_A"}

\* dwFlags of a key-down (KEYBD_EVENT_FLAGS(0)) and of a key-up event.
KEYDOWN == 0

KEYEVENTF_KEYUP == 2

\* inputs.iter().rev().
Rev(s) == [i \in 1..Len(s) |-> s[Len(s) + 1 - i]]

\* The order in which the key-up half walks the keys.
KeyUpOrderSame(ks) == ks

KeyUpOrder(ks) == Rev(ks)

\* One INPUT of type INPUT_KEYBOARD.
KeyInput(vk, flags) == [wVk |-> vk, dwFlags |-> flags]

\* The Vec<INPUT> send_keys builds: every key with flags 0 in the given order,
\* chained with every key with KEYEVENTF_KEYUP in the order of KeyUpOrder.
SendKeysInputs(ks) ==
    [i \in 1..Len(ks) |-> KeyInput(ks[i], KEYDOWN)]
        \o [i \in 1..Len(ks) |-> KeyInput(KeyUpOrder(ks)[i], KEYEVENTF_KEYUP)]

KeySeqs == UNION {[1..n -> Keys] : n \in 0..MaxKeys}

InitKeys ==
    /\ InitApp
    /\ monitor = Some(<<9, 8>>)
    /\ input \in {Some(ks) : ks \in KeySeqs}
    /\ output = None

\* send_keys up to the spawn: the vector is built.
SendKeys ==
    /\ output = None
    /\ output' = Some([inputs |-> SendKeysInputs(input[1]), sent |-> <<>>])
    /\ UNCHANGED <<appVars, input>>

\* The spawned thread: SendInput(&inputs) hands the vector to the OS.
SendInputThread ==
    /\ output # None
    /\ output[1].sent = <<>>
    /\ output[1].inputs # <<>>
    /\ output' = Some([output[1] EXCEPT !.sent = output[1].inputs])
    /\ UNCHANGED <<appVars, input>>

NextKeys == SendKeys \/ SendInputThread

SpecKeys == InitKeys /\ [][NextKeys]_vars

\* ------------------------------------------------------ a frame on its own

\* A surface (NonZeroU32 width and height), a border and a build.
DrawInputs ==
    [w : 1..MaxDim, h : 1..MaxDim, b : 1..MaxBorder, debug : BOOLEAN]

InitDraw ==
    /\ InitApp
    /\ monitor = Some(<<9, 8>>)
    /\ input \in {Some(d) : d \in DrawInputs}
    /\ output = None

\* The RedrawRequested arm on the surface of the input.
DrawFrame ==
    /\ output = None
    /\ output' = Some(Frame(input[1].w, input[1].h, input[1].b, input[1].debug))
    /\ UNCHANGED <<appVars, input>>

NextDraw == DrawFrame

SpecDraw == InitDraw /\ [][NextDraw]_vars

\* --------------------------------------------------- hsv_to_rgb, line 224

\* Rust's % on a dividend of either sign (the result has the dividend's sign).
RustRem(a, n) == IF a >= 0 THEN a % n ELSE -((-a) % n)

Abs(a) == IF a >= 0 THEN a ELSE -a

\* f32::round (half away from zero) of n/d followed by `as u8` (saturating).
RoundU8(n, d) ==
    LET r == IF n >= 0 THEN RoundDiv(n, d) ELSE -RoundDiv(-n, d)
    IN  IF r < 0 THEN 0 ELSE IF r > 255 THEN 255 ELSE r

\* The sector of the hue: which of c, x, 0 goes to r, g, b.
SectorShifted(h, c, x) ==
    IF h < 60 THEN <<x, c, 0>>
    ELSE IF h < 120 THEN <<0, c, x>>
    ELSE IF h < 180 THEN <<0, x, c>>
    ELSE IF h < 240 THEN <<x, 0, c>>
    ELSE IF h < 300 THEN <<c, 0, x>>
    ELSE <<c, x, 0>>

Sector(h, c, x) ==
    IF h < 60 THEN <<c, x, 0>>
    ELSE IF h < 120 THEN <<x, c, 0>>
    ELSE IF h < 180 THEN <<0, c, x>>
    ELSE IF h < 240 THEN <<0, x, c>>
    ELSE IF h < 300 THEN <<x, 0, c>>
    ELSE <<c, 0, x>>

\* hsv_to_rgb for a hue of deg whole degrees and s, v in {0, 1}, in exact
\* arithmetic with every quantity in sixtieths: c = v*s, x = c*(1 - |((h/60)
\* mod 2) - 1|), m = v - c, each channel ((value + m) * 255).round() as u8.
\* (f32 is exact at the multiples of 60 and wherever c = 0; elsewhere its
\* rounding may differ from this by one unit at half points.)
HsvToRgb(deg, s, v) ==
    LET h == RustRem(deg, 360)
        c == 60 * v * s
        x == v * s * (60 - Abs(RustRem(h, 120) - 60))
        m == 60 * v - c
        t == Sector(h, c, x)
    IN  [r |-> RoundU8((t[1] + m) * 255, 60),
         g |-> RoundU8((t[2] + m) * 255, 60),
         b |-> RoundU8((t[3] + m) * 255, 60)]

HsvInputs == [h : (-MaxHue)..MaxHue, s : {0, 1}, v : {0, 1}]

InitHsv ==
    /\ InitApp
    /\ monitor = Some(<<9, 8>>)
    /\ input \in {Some(a) : a \in HsvInputs}
    /\ output = None

Convert ==
    /\ output = None
    /\ output' = Some(HsvToRgb(input[1].h, input[1].s, input[1].v))
    /\ UNCHANGED <<appVars, input>>

NextHsv == Convert

SpecHsv == InitHsv /\ [][NextHsv]_vars

\* ================================================================== claims

\* ---- C1
\* Every wake sent so far has been handled and both threads are at rest.
AllWakesHandled ==
    /\ Running
    /\ wakes = 0
    /\ ui.pc = "idle"
    /\ hotkey.pc = "waiting"

\* Two toggles have completed since the snapshot, no third has started, and
\* the UI thread handled no wake before the second completed.
TwoRapidToggles ==
    /\ probe # None
    /\ probe[1].n = 2
    /\ probe[1].clean

SameAsBefore ==
    /\ (window # None) = probe[1].present
    /\ show_state = probe[1].flag

\* C1 as stated: two toggles run before the UI thread handles the first wake;
\* once all pending wakes are handled the window is present iff it was before
\* the two toggles and VisibilityFlag has its earlier value.
C1_AsStated == (TwoRapidToggles /\ AllWakesHandled) => SameAsBefore

\* C1, amended: the same, provided the window was present iff VisibilityFlag
\* was true when the first of the two toggles started (so not before resumed
\* has created the first window, nor while the wake of an earlier toggle is
\* still to be handled).
C1_NetZeroFromSettled ==
    (TwoRapidToggles /\ probe[1].present = probe[1].flag /\ AllWakesHandled)
        => SameAsBefore

\* A shown overlay was toggled twice before any wake was handled, and both
\* wakes have now been handled.
C1_Witness ==
    /\ TwoRapidToggles
    /\ probe[1].present /\ probe[1].flag
    /\ AllWakesHandled
    /\ window # None

\* ---- C2
\* C2: in every reachable state at most one overlay window exists, and it is
\* the one App holds: a window is created only when none is held and the held
\* one is released before another is created.
C2_AtMostOneWindow ==
    /\ Cardinality(live) <= 1
    /\ live = IF window = None THEN {} ELSE {window[1].id}

\* A second window exists after the first was released.
C2_Witness ==
    /\ window # None
    /\ window[1].id = 2
    /\ live = {2}

\* ---- C3
\* C3: for every key sequence k1..kn send_keys builds exactly 2n events:
\* key-down for k1..kn in the given order, then key-up for kn..k1 in reverse
\* order; for [A, B] that is down(A), down(B), up(B), up(A).
C3_DownThenUpReversed ==
    /\ SendKeysInputs(<<"VK_CONTROL", "VK_TAB">>)
         = << KeyInput("VK_CONTROL", KEYDOWN), KeyInput("VK_TAB", KEYDOWN),
              KeyInput("VK_TAB", KEYEVENTF_KEYUP),
              KeyInput("VK_CONTROL", KEYEVENTF_KEYUP) >>
    /\ output # None =>
         LET ks == input[1]
             n  == Len(ks)
             ev == output[1].inputs
         IN  /\ Len(ev) = 2 * n
             /\ \A i \in 1..n :
                   /\ ev[i] = [wVk |-> ks[i], dwFlags |-> KEYDOWN]
                   /\ ev[n + i] = [wVk |-> ks[n + 1 - i],
                                   dwFlags |-> KEYEVENTF_KEYUP]

\* A combination of three keys, the first and the last different, has been
\* built and handed to the OS.
C3_Witness ==
    /\ output # None
    /\ Len(input[1]) = 3
    /\ input[1][1] # input[1][3]
    /\ output[1].sent = output[1].inputs
    /\ Len(output[1].sent) = 6

\* ---- C4
\* The UI thread has received a close request for the window it holds.
CloseOfHeldWindow ==
    /\ Running
    /\ ui.pc = "handling"
    /\ ui.ev[1] = "CloseRequested"
    /\ window # None
    /\ window[1].id = ui.ev[2]

\* C4: a close request for the held window makes the event loop exit and the
\* process terminate with status 0, whatever the hotkey thread is doing; the
\* overlay is not merely hidden with the process running on.
C4_CloseTerminates ==
    CloseOfHeldWindow ~> (proc = [state |-> "exited", code |-> 0])

\* The process has exited with status 0 while the hotkey thread was waiting in
\* its dispatch loop and the window was still held.
C4_Witness ==
    /\ proc = [state |-> "exited", code |-> 0]
    /\ ui.ev = <<"none", 0>>
    /\ ui.pc = "exit"
    /\ hotkey.pc = "waiting"
    /\ window # None

\* ---- C5
\* C5: a window created by a Hidden -> Shown transition has the size the
\* monitor query returns at that transition, also when the display has changed
\* its size since the previous window was created.
C5_SizedAtCreation ==
    [][(window' # None /\ window' # window) =>
          /\ monitor # None
          /\ <<window'[1].width, window'[1].height>> = monitor[1]]_vars

\* The second window is held and its size differs from the first one's.
C5_Witness ==
    /\ Len(created) >= 2
    /\ created[1] # created[2]
    /\ window # None
    /\ window[1].id = 2
    /\ <<window[1].width, window[1].height>> = created[2]

\* ---- C6
\* The position the frame left at pixel (x, y).
PosAt(f, w, x, y) == f.buf[y * w + x]

\* The clockwise walk from the top-left corner: the top band along row rt left
\* to right, the right band along column cr top to bottom, the bottom band
\* along row rb right to left, the left band along column cl bottom to top.
Walk(w, h, b, rt, cr, rb, cl) ==
    [i \in 1..w |-> <<i - 1, rt>>]
        \o [i \in 1..(h - 2 * b) |-> <<cr, b + i - 1>>]
        \o [i \in 1..w |-> <<w - i, rb>>]
        \o [i \in 1..(h - 2 * b) |-> <<cl, h - b - i>>]

\* C6: on every surface with w >= 2b and h >= 2b, the perimeter position the
\* redraw assigns never decreases along the clockwise walk from the top-left
\* corner, across the band boundaries too, whichever row or column of each
\* band the walk follows.
C6_WalkMonotone ==
    (output # None /\ input[1].w >= 2 * input[1].b
                   /\ input[1].h >= 2 * input[1].b) =>
        LET w == input[1].w
            h == input[1].h
            b == input[1].b
            f == output[1]
        IN  /\ f.status = "presented"
            /\ \A rt \in 0..(b - 1), cr \in (w - b)..(w - 1),
                  rb \in (h - b)..(h - 1), cl \in 0..(b - 1) :
                  LET path == Walk(w, h, b, rt, cr, rb, cl)
                  IN  /\ \A i \in DOMAIN path :
                            PosAt(f, w, path[i][1], path[i][2]) # None
                      /\ \A i \in 1..(Len(path) - 1) :
                            PosAt(f, w, path[i][1], path[i][2])[1]
                              <= PosAt(f, w, path[i + 1][1], path[i + 1][2])[1]

\* A frame with a border two pixels thick and side bands three pixels long.
C6_Witness ==
    /\ output # None
    /\ input[1].w = 5 /\ input[1].h = 7 /\ input[1].b = 2
    /\ output[1].status = "presented"
    /\ PosAt(output[1], 5, 0, 2) # None

\* ---- C7
\* The band of pixel (x, y) on a surface with w >= 2b and h >= 2b.
InTop(w, h, b, x, y) == y < b

InBottom(w, h, b, x, y) == y >= h - b

InRight(w, h, b, x, y) == b <= y /\ y < h - b /\ x >= w - b

InLeft(w, h, b, x, y) == b <= y /\ y < h - b /\ x < b

\* The figures of the 800 x 600 surface with border 4: perimeter 2784, pixel
\* (0, 0) at position 0, pixel (796, 0) at position 796 (both in the top band).
Example800x600 ==
    /\ Perimeter(800, 600, 4) = 2784
    /\ InTop(800, 600, 4, 0, 0) /\ TopPos(0) = 0
    /\ InTop(800, 600, 4, 796, 0) /\ TopPos(796) = 796

\* The left band's position as the specification words it, and as amended.
LeftAsStated(w, h, b, y) == 2 * w + (h - 2 * b) + (h - 1 - b - (y - b))

LeftAmended(w, h, b, y) == 2 * w + (h - 2 * b) + ((h - 2 * b - 1) - (y - b))

\* The pixels of a frame agree with the formulas of the top, right and bottom
\* bands and, in the left band, with the stated or the amended formula.
BandFormulas(stated) ==
    (output # None /\ input[1].w >= 2 * input[1].b
                   /\ input[1].h >= 2 * input[1].b) =>
        LET w == input[1].w
            h == input[1].h
            b == input[1].b
            f == output[1]
        IN  \A x \in 0..(w - 1), y \in 0..(h - 1) :
               /\ InTop(w, h, b, x, y) => PosAt(f, w, x, y) = Some(x)
               /\ InRight(w, h, b, x, y) =>
                     PosAt(f, w, x, y) = Some(w + (y - b))
               /\ InBottom(w, h, b, x, y) =>
                     PosAt(f, w, x, y) = Some(w + (h - 2 * b) + (w - 1 - x))
               /\ InLeft(w, h, b, x, y) =>
                     PosAt(f, w, x, y) =
                        Some(IF stated THEN LeftAsStated(w, h, b, y)
                             ELSE LeftAmended(w, h, b, y))

\* C7 as stated: every border pixel has the position of the per-band formula,
\* the left band's being 2w + (h - 2b) + (h - 1 - b - (y - b)).
C7_AsStated == Example800x600 /\ BandFormulas(TRUE)

\* C7, amended: on every surface with w >= 2b and h >= 2b each border pixel
\* has the position x (top), w + (y - b) (right), w + (h - 2b) + (w - 1 - x)
\* (bottom) and 2w + (h - 2b) + ((h - 2b - 1) - (y - b)) (left); for 800 x 600
\* with b = 4 the perimeter is 2784, (0, 0) is at 0 and (796, 0) at 796.
C7_LeftBandFromCode == Example800x600 /\ BandFormulas(FALSE)

\* A frame whose left band has pixels, one of them the lowest of the band.
C7_Witness ==
    /\ output # None
    /\ input[1].w = 4 /\ input[1].h = 6 /\ input[1].b = 2
    /\ output[1].status = "presented"
    /\ PosAt(output[1], 4, 0, 3) = Some(2 * 4 + 2)

\* ---- C8
\* C8: hsv_to_rgb with s = 1, v = 1 maps hue 0 to (255,0,0), 60 to (255,255,0),
\* 120 to (0,255,0) and 240 to (0,0,255); with s = 0, v = 1 every hue gives
\* (255,255,255).
C8_HsvValues ==
    output # None =>
        LET a == input[1]
            rgb == output[1]
            full == a.s = 1 /\ a.v = 1
        IN  /\ (full /\ a.h = 0)   => rgb = [r |-> 255, g |-> 0,   b |-> 0]
            /\ (full /\ a.h = 60)  => rgb = [r |-> 255, g |-> 255, b |-> 0]
            /\ (full /\ a.h = 120) => rgb = [r |-> 0,   g |-> 255, b |-> 0]
            /\ (full /\ a.h = 240) => rgb = [r |-> 0,   g |-> 0,   b |-> 255]
            /\ (a.s = 0 /\ a.v = 1) =>
                  rgb = [r |-> 255, g |-> 255, b |-> 255]

\* Hue 240 at full saturation and value has been converted.
C8_Witness ==
    /\ output # None
    /\ input[1] = [h |-> 240, s |-> 1, v |-> 1]
    /\ output[1].b = 255

\* ---- C9
\* C9: whenever perimeter = 2*(w + h - 2b) <= 0 the redraw skips the frame: it
\* writes no pixel and does no further geometry arithmetic, so it neither
\* panics nor reaches an overflowing subtraction h - 2b.
C9_NonPositivePerimeterSkips ==
    (output # None
       /\ 2 * (input[1].w + input[1].h - 2 * input[1].b) <= 0) =>
        /\ output[1].status = "skipped"
        /\ output[1].writes = <<>>
        /\ \A i \in DOMAIN output[1].buf : output[1].buf[i] = None

\* ---- C10
\* The UI thread is about to handle a redraw of the window it holds.
RedrawOfHeldWindow ==
    /\ Running
    /\ ui.pc = "handling"
    /\ ui.ev[1] = "RedrawRequested"
    /\ window # None
    /\ window[1].id = ui.ev[2]

\* C10: a redraw that skips its frame (a buffer length mismatch or a degenerate
\* surface) is not fatal and the frame is retried: when the handler returns
\* from a skipped frame the process is still running and a redraw of the held
\* window is requested.
C10_SkippedFrameRetried ==
    [][(RedrawOfHeldWindow /\ ui'.pc = "idle" /\ frame' = "skipped") =>
          /\ Running'
          /\ window[1].id \in redraws']_vars

\* ---- C11
\* C11: a hotkey registration failure at startup is fatal to the whole
\* process: once a register call on the hotkey thread has failed the process
\* has terminated with a non-zero status, so the event loop never runs on with
\* an overlay but without its hotkey bindings.
C11_RegistrationFailureFatal ==
    hotkey.pc = "panicked" => (~Running /\ proc.code # 0)

\* ---- C12
\* C12: the core (hotkey thread, event loop, window creation) starts only after
\* the bootstrap has succeeded: the process that starts the core has the
\* UIAccess privilege and has launched no replacement of itself; after a
\* bootstrap failure the original process never starts the core.
C12_CoreOnlyWithPrivilege ==
    boot.pc = "core" => (boot.ui_access /\ ~boot.child)

\* ---- C13
\* Toggling has stopped and every wake sent has been handled.
TogglingStopped ==
    /\ Running
    /\ wakes = 0
    /\ ui.pc = "idle"
    /\ hotkey.pc \notin {"loaded", "stored"}

\* C13: a handled wake re-reads VisibilityFlag and leaves the window present
\* iff the value read is true (whenever create_window returns, that is unless
\* the monitor query made it panic); so once toggling has stopped and every
\* pending wake has been handled, coalesced or not, the window exists iff
\* VisibilityFlag is true.
C13_WindowFollowsFlag ==
    /\ [](TogglingStopped => ((window # None) = show_state))
    /\ [][(ui = Handling("UserEvent", 0) /\ ui' = Idle /\ Running') =>
             ((window' # None) = show_state)]_vars

\* Two toggles were handled as one: both have completed, every wake is
\* handled, and the window created by resumed was never released.
C13_Witness ==
    /\ TogglingStopped
    /\ toggles = 2
    /\ seen = Some(TRUE)
    /\ show_state
    /\ window # None
    /\ window[1].id = 1

\* ---- C14
\* C14: no redraw is requested while VisibilityFlag is false: in particular a
\* frame that completes while the flag is false requests no further redraw.
C14_NoRedrawRequestWhileHidden ==
    [][~show_state => redraws' \subseteq redraws]_vars

\* ---- C15
\* C15: every handled redraw of a non-degenerate surface (one of positive
\* perimeter) presents the buffer, and with it requests the next redraw, which
\* keeps the animation running.
C15_NonDegenerateFramePresented ==
    (output # None
       /\ 2 * (input[1].w + input[1].h - 2 * input[1].b) > 0) =>
        output[1].status = "presented"

\* ---- C16
\* Pixel (x, y) lies in one of the four border bands.
InBand(w, h, b, x, y) ==
    \/ InTop(w, h, b, x, y)
    \/ InBottom(w, h, b, x, y)
    \/ InLeft(w, h, b, x, y)
    \/ InRight(w, h, b, x, y)

\* C16: on every surface with w >= 2b and h >= 2b a redraw writes only pixels
\* of the four border bands (top rows [0,b), bottom rows [h-b,h), and in rows
\* [b,h-b) the left columns [0,b) and the right columns [w-b,w)); every pixel
\* outside the bands is left as it was.
C16_OnlyBorderWritten ==
    (output # None /\ input[1].w >= 2 * input[1].b
                   /\ input[1].h >= 2 * input[1].b) =>
        LET w == input[1].w
            h == input[1].h
            b == input[1].b
            f == output[1]
        IN  /\ \A k \in DOMAIN f.writes :
                  /\ f.writes[k].x \in 0..(w - 1)
                  /\ f.writes[k].y \in 0..(h - 1)
                  /\ InBand(w, h, b, f.writes[k].x, f.writes[k].y)
            /\ \A x \in 0..(w - 1), y \in 0..(h - 1) :
                  ~InBand(w, h, b, x, y) => PosAt(f, w, x, y) = None

\* A 7 x 7 frame with border 2: the centre pixel is untouched, the pixels next
\* to it on the inner edge of the left and right bands are written.
C16_Witness ==
    /\ output # None
    /\ input[1].w = 7 /\ input[1].h = 7 /\ input[1].b = 2
    /\ output[1].status = "presented"
    /\ PosAt(output[1], 7, 3, 3) = None
    /\ PosAt(output[1], 7, 2, 3) = None
    /\ PosAt(output[1], 7, 1, 3) # None
    /\ PosAt(output[1], 7, 5, 3) # None

\* ---- C17
\* C17: VisibilityFlag changes only in the store of the toggle action, and
\* every toggle flips it exactly once: with n toggles started, of which the
\* last may not have stored yet, the flag is its initial value (true) iff the
\* number of completed flips is even, under every interleaving with the UI
\* thread.
C17_FlagFlipsOncePerToggle ==
    /\ [](show_state =
            ((IF hotkey.pc = "loaded" THEN toggles - 1 ELSE toggles) % 2 = 0))
    /\ [][show_state' # show_state =>
             (hotkey.pc = "loaded" /\ hotkey'.pc = "stored")]_vars

\* Three toggles have completed, the UI thread has handled wakes in between,
\* and the flag is the negation of its initial value.
C17_Witness ==
    /\ toggles = 3
    /\ hotkey.pc = "waiting"
    /\ show_state = FALSE
    /\ next_id = 3
    /\ window = None
    /\ wakes = 0

\* ---- C18
\* C18: on every surface with w >= 2b and h >= 2b (b >= 1) the un-normalised
\* position p of every border pixel satisfies 0 <= p < perimeter = 2*(w + h -
\* 2b) in all four bands, so p / perimeter lies in [0, 1).
C18_PositionBelowPerimeter ==
    (output # None /\ input[1].w >= 2 * input[1].b
                   /\ input[1].h >= 2 * input[1].b) =>
        \A k \in DOMAIN output[1].writes :
           /\ 0 <= output[1].writes[k].p
           /\ output[1].writes[k].p
                < Perimeter(input[1].w, input[1].h, input[1].b)

\* A frame whose left band reaches the last position of the lap, perimeter - 1,
\* and whose four bands are all written.
C18_Witness ==
    /\ output # None
    /\ input[1].w = 4 /\ input[1].h = 6 /\ input[1].b = 2
    /\ \E k \in DOMAIN output[1].writes :
          /\ output[1].writes[k].band = "left"
          /\ output[1].writes[k].p = Perimeter(4, 6, 2) - 1
    /\ {output[1].writes[k].band : k \in DOMAIN output[1].writes}
          = {"top", "right", "bottom", "left"}

\* ---- C19
\* create_window runs in this step (user_event or resumed returns or panics).
CreateWindowRuns ==
    /\ Running
    /\ ui.pc = "handling"
    /\ ui.ev[1] \in {"UserEvent", "Resumed"}
    /\ ui' = Idle

\* C19: a redundant wake is harmless: when create_window runs and
\* VisibilityFlag has the value it had at the previous run, the App is left as
\* it was: the held window is kept (not destroyed, not recreated) if Shown, it
\* stays absent if Hidden, and the process runs on.
C19_RedundantWakeIdempotent ==
    [][(CreateWindowRuns /\ seen = Some(show_state)) =>
          /\ window' = window
          /\ live' = live
          /\ next_id' = next_id
          /\ Running']_vars

\* ---- C20
\* C20: on every surface with width >= 1 and height >= 2b (the buffer length
\* being width * height) every index y * width + x written by the four band
\* loops satisfies 0 <= index < width * height: no write is out of bounds, so
\* every band loop runs to its end and the frame is presented.
C20_WritesInBounds ==
    (output # None /\ input[1].w >= 1
                   /\ input[1].h >= 2 * input[1].b) =>
        /\ output[1].status = "presented"
        /\ Len(output[1].writes)
             = WriteCount(input[1].w, input[1].h, input[1].b)
        /\ \A k \in DOMAIN output[1].writes :
              /\ 0 <= output[1].writes[k].idx
              /\ output[1].writes[k].idx < input[1].w * input[1].h

\* A surface narrower than its border: the left band writes at x >= width, an
\* index of another row that is still inside the buffer.
C20_Witness ==
    /\ output # None
    /\ input[1].w = 1 /\ input[1].h = 7 /\ input[1].b = 3
    /\ output[1].status = "presented"
    /\ \E k \in DOMAIN output[1].writes :
          /\ output[1].writes[k].band = "left"
          /\ output[1].writes[k].x = 2
          /\ output[1].writes[k].idx = 5

\* ---- C21
\* window_event runs in this step on an event that is not for the held window:
\* none is held, or the held one has another id.
ForeignWindowEventHandled ==
    /\ Running
    /\ ui.pc = "handling"
    /\ ui.ev[1] \in {"CloseRequested", "RedrawRequested", "Other"}
    /\ window = None \/ window[1].id # ui.ev[2]
    /\ ui' # ui

\* C21: a window event whose id is not that of the held window (a redraw or a
\* close request still queued for a released window, or any event while no
\* window is held) is ignored: the App is left as it was, no redraw is
\* requested, no frame is drawn and the event loop does not exit.
C21_ForeignEventIgnored ==
    [][ForeignWindowEventHandled =>
          /\ ui' = Idle
          /\ window' = window
          /\ live' = live
          /\ show_state' = show_state
          /\ redraws' = redraws
          /\ frame' = frame
          /\ proc' = proc]_vars

\* The first window was released before its first redraw was delivered, and
\* that redraw has since been delivered and dropped: no window is held, no
\* frame was ever drawn, no redraw is pending and the event loop is waiting.
C21_Witness ==
    /\ Running
    /\ next_id = 2
    /\ window = None
    /\ redraws = {}
    /\ frame = "none"
    /\ ui = Idle

====
